---- MODULE Spec2Model ----
(***************************************************************************)
(* BigSqsClient (src/big_sqs/big_sqs_client.py): an SQS client that stores *)
(* oversize message payloads on S3 and substitutes a pointer record.       *)
(*                                                                         *)
(* Text is modelled as a sequence of lexemes (records [k, s]); bytes as a  *)
(* sequence of [tok, i] records, the i-th byte of the UTF-8 encoding of a  *)
(* lexeme.  json.dumps / json.loads, str.encode / bytes.decode and md5 are *)
(* operators over these.  SQS and S3 are the environment: a queue of       *)
(* messages, the receipt handles issued for deliveries, and an object map. *)
(***************************************************************************)
EXTENDS Integers, Sequences, FiniteSets, TLC

VARIABLES
    size_threshold,          \* self._size_threshold
    receipt_handle_lookup,   \* self._receipt_handle_lookup
    sqs_queue,               \* SQS: the messages in the queue, in arrival order
    sqs_handles,             \* SQS: receipt handle -> the delivery it was issued for
    s3_objects,              \* S3: <<Bucket, Key>> -> bytes
    uuids,                   \* number of uuid4() values drawn so far
    sent,                    \* history: MessageId -> the message given to send_message
    calls,                   \* the service calls made by the last operation
    last,                    \* the last operation: arguments and outcome
    threads                  \* the callers that share the client: thread -> its
                             \* position in the call it is making, and its locals

vars == <<size_threshold, receipt_handle_lookup, sqs_queue, sqs_handles,
          s3_objects, uuids, sent, calls, last, threads>>

---------------------------------------------------------------------------
(* Bounds of the model *)

MaxUuids == 4           \* uuid4() values drawn (one or two per send_message)
MaxDeliveries == 2      \* receipt handles SQS issues
MaxBatch == 2           \* max_number_of_messages, and len(messages) of a batch
RecursionLimit == 3     \* arrays and objects json.loads can nest (scaled down)

---------------------------------------------------------------------------
(* Configuration *)

MAX_SQS_MESSAGE_SIZE == 262144

bucket_name == "bucket"

\* The size thresholds an adapter is constructed with in this model.
Thresholds == {5, 100}

POINTER_TAG == "com.amazon.sqs.javamessaging.MessageS3Pointer"

---------------------------------------------------------------------------
(* Text: lexemes *)

Punct(c) == [k |-> "punct", s |-> c]     \* one of [ ] { } , :
Str(s) == [k |-> "string", s |-> s]      \* the JSON string literal "s"
Null == [k |-> "null", s |-> "null"]     \* the JSON literal null
Word(s) == [k |-> "word", s |-> s]       \* bare ASCII text, not JSON
Wide(s) == [k |-> "wide", s |-> s]       \* bare text of 2-byte code points

\* len(str): the number of characters of a lexeme as json.dumps writes it
\* (", " and ": " carry their space).
CharLen(tok) ==
    CASE tok.k = "punct" -> IF tok.s \in {",", ":"} THEN 2 ELSE 1
      [] tok.k = "string" -> Len(tok.s) + 2
      [] OTHER -> Len(tok.s)

\* The number of bytes of the UTF-8 encoding of a lexeme.
ByteLen(tok) == IF tok.k = "wide" THEN 2 * Len(tok.s) ELSE CharLen(tok)

RECURSIVE len(_)
len(text) == IF text = <<>> THEN 0 ELSE CharLen(Head(text)) + len(Tail(text))

\* str.encode('utf-8')
RECURSIVE encode(_)
encode(text) ==
    IF text = <<>> THEN <<>>
    ELSE [i \in 1..ByteLen(Head(text)) |-> [tok |-> Head(text), i |-> i]]
         \o encode(Tail(text))

\* bytes.decode('utf-8'): [ok, text]; not ok is UnicodeDecodeError.
RECURSIVE decode(_)
decode(bytes) ==
    IF bytes = <<>> THEN [ok |-> TRUE, text |-> <<>>]
    ELSE LET tok == Head(bytes).tok
             w == ByteLen(tok)
         IN IF /\ Len(bytes) >= w
               /\ \A i \in 1..w : bytes[i] = [tok |-> tok, i |-> i]
            THEN LET rest == decode(SubSeq(bytes, w + 1, Len(bytes)))
                 IN [ok |-> rest.ok,
                     text |-> IF rest.ok THEN <<tok>> \o rest.text ELSE <<>>]
            ELSE [ok |-> FALSE, text |-> <<>>]

\* (mutant: the length in characters)
utf8len_chars(message) == len(message)

\* utf8len: len(message.encode('utf-8'))
utf8len(message) == Len(encode(message))

\* hashlib.md5(b).hexdigest(), as an ideal (collision-free) digest of bytes.
md5_hexdigest(bytes) == [md5 |-> bytes]

---------------------------------------------------------------------------
(* JSON values, json.dumps and json.loads *)

JStr(s) == [t |-> "str", s |-> s, items |-> <<>>]
JNull == [t |-> "null", s |-> "", items |-> <<>>]
JList(items) == [t |-> "list", s |-> "", items |-> items]
\* a dict: its items are <<key, value>> pairs in insertion order
JDict(pairs) == [t |-> "dict", s |-> "", items |-> pairs]

Keys(d) == {d.items[i][1] : i \in 1..Len(d.items)}

\* d[key]: with a key repeated in the text, json.loads keeps the last value.
Get(d, key) ==
    LET at == {i \in 1..Len(d.items) : d.items[i][1] = key}
    IN d.items[CHOOSE i \in at : \A j \in at : j <= i][2]

\* json.dumps(value), with the default separators ", " and ": "
RECURSIVE json_dumps(_)
RECURSIVE DumpItems(_, _)
DumpItems(items, isDict) ==
    IF items = <<>> THEN <<>>
    ELSE (IF isDict
          THEN <<Str(Head(items)[1]), Punct(":")>> \o json_dumps(Head(items)[2])
          ELSE json_dumps(Head(items)))
         \o (IF Tail(items) = <<>> THEN <<>> ELSE <<Punct(",")>>)
         \o DumpItems(Tail(items), isDict)

json_dumps(value) ==
    CASE value.t = "str" -> <<Str(value.s)>>
      [] value.t = "null" -> <<Null>>
      [] value.t = "list" ->
            <<Punct("[")>> \o DumpItems(value.items, FALSE) \o <<Punct("]")>>
      [] value.t = "dict" ->
            <<Punct("{")>> \o DumpItems(value.items, TRUE) \o <<Punct("}")>>

\* The scanner of json.loads: the value that starts at text[i].  The result is
\* [err, val, next]; err is "" or the name of the exception raised.  Every
\* array or object entered costs one level of the interpreter's recursion
\* limit.
Failed(e) == [err |-> e, val |-> JNull, next |-> 0]
Parsed(v, n) == [err |-> "", val |-> v, next |-> n]
Is(text, i, c) == i <= Len(text) /\ text[i] = Punct(c)

RECURSIVE ScanValue(_, _, _)
RECURSIVE ScanArray(_, _, _, _)
RECURSIVE ScanObject(_, _, _, _)

\* text[i] is the first element not yet read of an array; acc the elements read
ScanArray(text, i, depth, acc) ==
    LET v == ScanValue(text, i, depth)
    IN IF v.err # "" THEN v
       ELSE IF Is(text, v.next, "]")
            THEN Parsed(JList(Append(acc, v.val)), v.next + 1)
       ELSE IF Is(text, v.next, ",")
            THEN ScanArray(text, v.next + 1, depth, Append(acc, v.val))
       ELSE Failed("JSONDecodeError")

\* text[i] is the key of the first member not yet read of an object
ScanObject(text, i, depth, acc) ==
    IF ~(i + 1 <= Len(text) /\ text[i].k = "string" /\ Is(text, i + 1, ":"))
    THEN Failed("JSONDecodeError")
    ELSE LET v == ScanValue(text, i + 2, depth)
             pairs == Append(acc, <<text[i].s, v.val>>)
         IN IF v.err # "" THEN v
            ELSE IF Is(text, v.next, "}")
                 THEN Parsed(JDict(pairs), v.next + 1)
            ELSE IF Is(text, v.next, ",")
                 THEN ScanObject(text, v.next + 1, depth, pairs)
            ELSE Failed("JSONDecodeError")

ScanValue(text, i, depth) ==
    IF i > Len(text) THEN Failed("JSONDecodeError")
    ELSE CASE text[i].k = "string" -> Parsed(JStr(text[i].s), i + 1)
           [] text[i].k = "null" -> Parsed(JNull, i + 1)
           [] text[i] = Punct("[") ->
                 IF depth >= RecursionLimit THEN Failed("RecursionError")
                 ELSE IF Is(text, i + 1, "]") THEN Parsed(JList(<<>>), i + 2)
                 ELSE ScanArray(text, i + 1, depth + 1, <<>>)
           [] text[i] = Punct("{") ->
                 IF depth >= RecursionLimit THEN Failed("RecursionError")
                 ELSE IF Is(text, i + 1, "}") THEN Parsed(JDict(<<>>), i + 2)
                 ELSE ScanObject(text, i + 1, depth + 1, <<>>)
           [] OTHER -> Failed("JSONDecodeError")

\* json.loads(text): [err, val]; text after the value is "Extra data".
json_loads(text) ==
    LET v == ScanValue(text, 1, 0)
    IN IF v.err # "" THEN [err |-> v.err, val |-> JNull]
       ELSE IF v.next <= Len(text) THEN [err |-> "JSONDecodeError", val |-> JNull]
       ELSE [err |-> "", val |-> v.val]

---------------------------------------------------------------------------
(* is_s3_pointer *)

\* The boolean expression of the try block, on a parsed body.
PointerShape(parsed_body) ==
    /\ parsed_body.t = "list" /\ Len(parsed_body.items) = 2
    /\ parsed_body.items[1] = JStr(POINTER_TAG)
    /\ parsed_body.items[2].t = "dict"
    /\ "s3BucketName" \in Keys(parsed_body.items[2])
    /\ "s3Key" \in Keys(parsed_body.items[2])

\* The except clause: the exceptions is_s3_pointer turns into False.
Caught == {"JSONDecodeError"}

\* is_s3_pointer(message): [err, result]; err names an exception that leaves it.
is_s3_pointer(message) ==
    LET loaded == json_loads(message.Body)
    IN IF loaded.err = "" THEN [err |-> "", result |-> PointerShape(loaded.val)]
       ELSE IF loaded.err \in Caught THEN [err |-> "", result |-> FALSE]
       ELSE [err |-> loaded.err, result |-> FALSE]

---------------------------------------------------------------------------
(* The services.  A world w is the state an operation runs on:            *)
(*   queue, handles, s3, uuids, lookup: the variables;                     *)
(*   calls: the service calls made so far; err: the exception in flight.   *)
(* fault is the ordinal of the service call of the operation that fails    *)
(* (0: none): a failure ends the operation, so one per operation is all    *)
(* that can happen.                                                        *)

None == "None"

Uuid(n) == "uuid" \o ToString(n)
Handle(n) == "rh" \o ToString(n)
MsgId(dedup) == "m-" \o dedup

NoCall ==
    [op |-> "", Bucket |-> JNull, Key |-> JNull, Body |-> <<>>, DedupId |-> "",
     GroupId |-> "", Attributes |-> "", ReceiptHandle |-> "", Max |-> 0,
     ok |-> TRUE]

Fails(w, fault) == Len(w.calls) + 1 = fault

Logged(w, call, error) ==
    [w EXCEPT !.calls = Append(@, [call EXCEPT !.ok = (error = "")]),
              !.err = error]

Store(f, k, v) == [x \in DOMAIN f \cup {k} |-> IF x = k THEN v ELSE f[x]]
Without(f, k) == [x \in DOMAIN f \ {k} |-> f[x]]

\* self._s3.put_object(Body=, Bucket=, Key=, ContentType='text/plain')
s3_put_object(w, fault, Body, Bucket, Key) ==
    LET call == [NoCall EXCEPT !.op = "s3.put_object", !.Bucket = JStr(Bucket),
                               !.Key = JStr(Key), !.Body = Body]
    IN IF Fails(w, fault) THEN Logged(w, call, "ClientError")
       ELSE [Logged(w, call, "") EXCEPT
                !.s3 = Store(@, <<Bucket, Key>>, encode(Body))]

\* self._sqs.send_message(...): the message joins the queue.
sqs_send_message(w, fault, dedup, group, attributes, body) ==
    LET call == [NoCall EXCEPT !.op = "sqs.send_message", !.DedupId = dedup,
                               !.GroupId = group, !.Attributes = attributes,
                               !.Body = body]
        msg == [MessageId |-> MsgId(dedup), Body |-> body,
                MD5OfBody |-> md5_hexdigest(encode(body)),
                DedupId |-> dedup, GroupId |-> group, Attributes |-> attributes]
    IN IF Fails(w, fault) THEN Logged(w, call, "ClientError")
       ELSE [Logged(w, call, "") EXCEPT !.queue = Append(@, msg),
                                        !.ret = MsgId(dedup)]

\* self._s3.get_object(Bucket=, Key=): Bucket and Key are the parsed values.
s3_get_error(w, fault, Bucket, Key) ==
    IF Bucket.t # "str" \/ Key.t # "str" THEN "ParamValidationError"
    ELSE IF Fails(w, fault) THEN "ClientError"
    ELSE IF <<Bucket.s, Key.s>> \notin DOMAIN w.s3 THEN "NoSuchKey"
    ELSE ""

s3_get_object(w, fault, Bucket, Key) ==
    Logged(w, [NoCall EXCEPT !.op = "s3.get_object", !.Bucket = Bucket,
                             !.Key = Key],
           s3_get_error(w, fault, Bucket, Key))

\* self._s3.delete_object(Bucket=, Key=); deleting a missing key succeeds.
s3_delete_object(w, fault, Bucket, Key) ==
    LET call == [NoCall EXCEPT !.op = "s3.delete_object", !.Bucket = Bucket,
                               !.Key = Key]
    IN IF Bucket.t # "str" \/ Key.t # "str"
       THEN Logged(w, call, "ParamValidationError")
       ELSE IF Fails(w, fault) THEN Logged(w, call, "ClientError")
       ELSE [Logged(w, call, "") EXCEPT !.s3 = Without(@, <<Bucket.s, Key.s>>)]

\* self._sqs.delete_message(QueueUrl=, ReceiptHandle=): the message the handle
\* was issued for leaves the queue; a handle SQS never issued is refused.
sqs_delete_message(w, fault, receipt_handle) ==
    LET call == [NoCall EXCEPT !.op = "sqs.delete_message",
                               !.ReceiptHandle = receipt_handle]
        keep == {i \in 1..Len(w.queue) :
                    w.queue[i].MessageId # w.handles[receipt_handle].MessageId}
    IN IF receipt_handle \notin DOMAIN w.handles
       THEN Logged(w, call, "ReceiptHandleIsInvalid")
       ELSE IF Fails(w, fault) THEN Logged(w, call, "ClientError")
       ELSE [Logged(w, call, "") EXCEPT
                !.queue = [i \in 1..Cardinality(keep) |->
                    w.queue[CHOOSE j \in keep :
                        Cardinality({x \in keep : x <= j}) = i]],
                !.ret = "deleted"]

---------------------------------------------------------------------------
(* send_message, send_messages *)

\* (mutant: a payload of exactly the threshold goes to S3)
exceeds_threshold_ge(message) == utf8len(message) >= size_threshold

\* line 83: BigSqsClient.utf8len(message) > self._size_threshold
exceeds_threshold(message) == utf8len(message) > size_threshold

\* lines 92-98: the pointer record
s3_pointer(bucket, key) ==
    JList(<<JStr(POINTER_TAG),
            JDict(<< <<"s3BucketName", JStr(bucket)>>, <<"s3Key", JStr(key)>> >>)>>)

\* uuid4(): the next fresh identifier, and the world that has drawn it
Draw(w) == [w EXCEPT !.uuids = @ + 1]

\* (mutant: a failure of the blob write is ignored and the pointer is sent)
send_message_despite(w, fault, message, attributes, message_group_id) ==
    LET payload_id == Uuid(w.uuids + 1)
        w1 == Draw(w)
        big == exceeds_threshold(message)
        w2 == IF big THEN s3_put_object(w1, fault, message, bucket_name, payload_id)
              ELSE w1
        payload == IF big THEN json_dumps(s3_pointer(bucket_name, payload_id))
                   ELSE message
        w3 == IF message_group_id # None THEN w2 ELSE Draw(w2)
        group == IF message_group_id # None THEN message_group_id
                 ELSE Uuid(w2.uuids + 1)
    IN sqs_send_message(w3, fault, payload_id, group,
                        IF attributes # None THEN attributes ELSE "{}",
                        payload)

send_message(w, fault, message, attributes, message_group_id) ==
    LET payload_id == Uuid(w.uuids + 1)
        w1 == Draw(w)
        big == exceeds_threshold(message)
        w2 == IF big THEN s3_put_object(w1, fault, message, bucket_name, payload_id)
              ELSE w1
        payload == IF big THEN json_dumps(s3_pointer(bucket_name, payload_id))
                   ELSE message
        w3 == IF message_group_id # None THEN w2 ELSE Draw(w2)
        group == IF message_group_id # None THEN message_group_id
                 ELSE Uuid(w2.uuids + 1)
    IN IF w2.err # "" THEN w2
       ELSE sqs_send_message(w3, fault, payload_id, group,
                             IF attributes # None THEN attributes ELSE "{}",
                             payload)

\* list(map(lambda message: self.send_message(*message), messages)), from
\* item i on: w.results are the responses gathered so far.  An exception
\* leaves map and list, and the list under construction with them.
\* (w.sent is history: the message each MessageId was sent for.)
RECURSIVE send_messages_from(_, _, _, _)
send_messages_from(w, fault, messages, i) ==
    IF i > Len(messages) THEN w
    ELSE LET w1 == send_message([w EXCEPT !.attempted = i], fault,
                                messages[i][1], messages[i][2], messages[i][3])
         IN IF w1.err # "" THEN [w1 EXCEPT !.results = <<>>]
            ELSE send_messages_from(
                    [w1 EXCEPT !.results = Append(@, w1.ret),
                               !.sent = Store(@, w1.ret, messages[i][1])],
                    fault, messages, i + 1)

send_messages(w, fault, messages) == send_messages_from(w, fault, messages, 1)

---------------------------------------------------------------------------
(* receive_messages *)

RECURSIVE Digits(_)
\* len(str(n))
Digits(n) == IF n < 10 THEN 1 ELSE 1 + Digits(n \div 10)

\* The characters json.dumps writes for a lexeme inside a string: a 2-byte
\* code point as \uXXXX, a quote as \".
DumpedLen(tok) ==
    CASE tok.k = "wide" -> 6 * Len(tok.s)
      [] tok.k = "string" -> CharLen(tok) + 2
      [] OTHER -> CharLen(tok)

RECURSIVE DumpedBody(_)
DumpedBody(text) ==
    IF text = <<>> THEN 0 ELSE DumpedLen(Head(text)) + DumpedBody(Tail(text))

RECURSIVE DumpedMessages(_)
DumpedMessages(msgs) ==
    IF msgs = <<>> THEN 0
    ELSE DumpedBody(Head(msgs).Body) + Len(Head(msgs).ReceiptHandle)
         + Len(Head(msgs).MessageId) + DumpedMessages(Tail(msgs))

\* len(json.dumps(sqs_response)), counting the parts of the response the
\* model holds: the messages and the content-length header itself.
DumpsLen(w) == DumpedMessages(w.msgs) + Digits(w.content_length)

\* self._sqs.receive_message(...): SQS delivers the queue's messages at the
\* indexes `delivered`, each under a fresh receipt handle.
sqs_receive_message(w, fault, max_number_of_messages, attributes, delivered) ==
    LET call == [NoCall EXCEPT !.op = "sqs.receive_message",
                               !.Max = max_number_of_messages,
                               !.Attributes = IF attributes = None THEN "All"
                                              ELSE attributes]
        issued == Cardinality(DOMAIN w.handles)
        msgs == [i \in 1..Len(delivered) |->
                    [MessageId |-> w.queue[delivered[i]].MessageId,
                     ReceiptHandle |-> Handle(issued + i),
                     Body |-> w.queue[delivered[i]].Body,
                     MD5OfBody |-> w.queue[delivered[i]].MD5OfBody]]
    IN IF Fails(w, fault) THEN Logged(w, call, "ClientError")
       ELSE [Logged(w, call, "") EXCEPT
                !.handles = [h \in DOMAIN w.handles
                                   \cup {msgs[i].ReceiptHandle : i \in 1..Len(msgs)} |->
                    IF h \in DOMAIN w.handles THEN w.handles[h]
                    ELSE LET m == msgs[CHOOSE i \in 1..Len(msgs) :
                                        msgs[i].ReceiptHandle = h]
                         IN [MessageId |-> m.MessageId, Body |-> m.Body]],
                !.msgs = msgs,
                !.polled = msgs,
                !.content_length = DumpedMessages(msgs)]

\* (mutant: bucket and key change places)
Record_swapped(lookup, message, s3_bucket_name, s3_key) ==
    Store(lookup, message.ReceiptHandle,
          [s3_bucket_name |-> s3_key, s3_key |-> s3_bucket_name])

\* lines 184-187: record the pointer against the receipt handle
Record(lookup, message, s3_bucket_name, s3_key) ==
    Store(lookup, message.ReceiptHandle,
          [s3_bucket_name |-> s3_bucket_name, s3_key |-> s3_key])

\* lines 196-199: correct the content length
CorrectContentLength(w) ==
    LET content_length == w.content_length
        new_content_length == DumpsLen(w)
    IN [w EXCEPT !.content_length =
            new_content_length + Digits(new_content_length) - Digits(content_length)]

\* (mutant: the hash is updated and the body is not)
Substitute_md5_only(w, i, body_bytes, decoded) ==
    IF ~decoded.ok THEN [w EXCEPT !.err = "UnicodeDecodeError"]
    ELSE CorrectContentLength(
            [w EXCEPT !.msgs[i].MD5OfBody = md5_hexdigest(body_bytes)])

\* (mutant: the body is replaced and the hash is not updated)
Substitute_body_only(w, i, body_bytes, decoded) ==
    IF ~decoded.ok THEN [w EXCEPT !.err = "UnicodeDecodeError"]
    ELSE CorrectContentLength([w EXCEPT !.msgs[i].Body = decoded.text])

\* lines 191-199: the fetched bytes replace the body of the message at index i
Substitute(w, i, body_bytes, decoded) ==
    IF ~decoded.ok THEN [w EXCEPT !.err = "UnicodeDecodeError"]
    ELSE CorrectContentLength(
            [w EXCEPT !.msgs[i].Body = decoded.text,
                      !.msgs[i].MD5OfBody = md5_hexdigest(body_bytes)])

\* line 190, in the world w the call was logged in
Fetched(w, i, s3_bucket_name, s3_key) ==
    IF w.err # "" THEN w
    ELSE Substitute(w, i, w.s3[<<s3_bucket_name.s, s3_key.s>>],
                    decode(w.s3[<<s3_bucket_name.s, s3_key.s>>]))

\* (mutant: the pointer is recorded against the message id)
ResolvePointer_by_id(w, fault, i, s3_bucket_name, s3_key) ==
    Fetched(s3_get_object(
                [w EXCEPT !.lookup = Record(@, [w.msgs[i] EXCEPT !.ReceiptHandle =
                                                    w.msgs[i].MessageId],
                                            s3_bucket_name, s3_key)],
                fault, s3_bucket_name, s3_key),
            i, s3_bucket_name, s3_key)

\* (mutant: the blob is fetched first, and the pointer recorded after)
ResolvePointer_fetch_first(w, fault, i, s3_bucket_name, s3_key) ==
    IF Fetched(s3_get_object(w, fault, s3_bucket_name, s3_key),
               i, s3_bucket_name, s3_key).err # ""
    THEN Fetched(s3_get_object(w, fault, s3_bucket_name, s3_key),
                 i, s3_bucket_name, s3_key)
    ELSE [Fetched(s3_get_object(w, fault, s3_bucket_name, s3_key),
                  i, s3_bucket_name, s3_key)
             EXCEPT !.lookup = Record(@, w.msgs[i], s3_bucket_name, s3_key)]

\* lines 180-193, for the pointer message at index i
ResolvePointer(w, fault, i, s3_bucket_name, s3_key) ==
    Fetched(s3_get_object(
                [w EXCEPT !.lookup = Record(@, w.msgs[i], s3_bucket_name, s3_key)],
                fault, s3_bucket_name, s3_key),
            i, s3_bucket_name, s3_key)

\* line 179: body = json.loads(message['Body']); body[1]
Destructure(message) == json_loads(message.Body).val.items[2]

\* (mutant: the receipt handle is recorded before the test of line 176)
Turn_record_first(w, fault, i, p) ==
    IF p.err # "" THEN [w EXCEPT !.err = p.err]
    ELSE IF p.result
         THEN ResolvePointer(w, fault, i,
                             Get(Destructure(w.msgs[i]), "s3BucketName"),
                             Get(Destructure(w.msgs[i]), "s3Key"))
    ELSE [w EXCEPT !.lookup = Record(@, w.msgs[i], JNull, JNull)]

\* lines 176-199: one turn of the loop, p the result of is_s3_pointer
Turn(w, fault, i, p) ==
    IF p.err # "" THEN [w EXCEPT !.err = p.err]
    ELSE IF p.result
         THEN ResolvePointer(w, fault, i,
                             Get(Destructure(w.msgs[i]), "s3BucketName"),
                             Get(Destructure(w.msgs[i]), "s3Key"))
    ELSE w

\* lines 173-199: the loop, from the message at index i on
RECURSIVE resolve_from(_, _, _)
resolve_from(w, fault, i) ==
    IF i > Len(w.msgs) \/ w.err # "" THEN w
    ELSE resolve_from(Turn(w, fault, i, is_s3_pointer(w.msgs[i])), fault, i + 1)

receive_messages(w, fault, max_number_of_messages, attributes, delivered) ==
    resolve_from(sqs_receive_message(w, fault, max_number_of_messages,
                                     attributes, delivered),
                 fault, 1)

---------------------------------------------------------------------------
(* delete_message *)

\* (mutant: a failure of the blob delete is swallowed)
delete_recorded_quiet(w, fault, receipt_handle) ==
    IF receipt_handle \in DOMAIN w.lookup
    THEN [s3_delete_object(w, fault, w.lookup[receipt_handle].s3_bucket_name,
                           w.lookup[receipt_handle].s3_key) EXCEPT !.err = ""]
    ELSE w

\* (mutant: the blob is fetched before it is deleted)
delete_recorded_checked(w, fault, receipt_handle) ==
    IF receipt_handle \in DOMAIN w.lookup
    THEN IF s3_get_object(w, fault, w.lookup[receipt_handle].s3_bucket_name,
                          w.lookup[receipt_handle].s3_key).err # ""
         THEN s3_get_object(w, fault, w.lookup[receipt_handle].s3_bucket_name,
                            w.lookup[receipt_handle].s3_key)
         ELSE s3_delete_object(
                 s3_get_object(w, fault, w.lookup[receipt_handle].s3_bucket_name,
                               w.lookup[receipt_handle].s3_key),
                 fault, w.lookup[receipt_handle].s3_bucket_name,
                 w.lookup[receipt_handle].s3_key)
    ELSE w

\* lines 221-226: the blob delete of a recorded receipt handle
delete_recorded(w, fault, receipt_handle) ==
    IF receipt_handle \in DOMAIN w.lookup
    THEN LET s3_pointer_rec == w.lookup[receipt_handle]
         IN s3_delete_object(w, fault, s3_pointer_rec.s3_bucket_name,
                             s3_pointer_rec.s3_key)
    ELSE w

\* (mutant: the blob is deleted first)
delete_message_blob_first(w, fault, receipt_handle) ==
    LET w1 == delete_recorded(w, fault, receipt_handle)
    IN IF w1.err # "" THEN w1 ELSE sqs_delete_message(w1, fault, receipt_handle)

\* lines 205-227
delete_message(w, fault, receipt_handle) ==
    LET w1 == sqs_delete_message(w, fault, receipt_handle)
    IN IF w1.err # "" THEN w1 ELSE delete_recorded(w1, fault, receipt_handle)

---------------------------------------------------------------------------
(* Inputs *)

Hello == <<Word("hello")>>                  \* 5 bytes
Mir == <<Wide("mir")>>                      \* 3 characters, 6 bytes
JustSomeText == <<Str("just some text")>>   \* JSON, a string

PointerTo(bucket, key) == json_dumps(s3_pointer(bucket, key))

\* a caller's payload that has the shape of a pointer record
Forged == PointerTo(bucket_name, Uuid(1))

\* [tag, pointer, "padding"]: three elements
Padded ==
    json_dumps(JList(Append(s3_pointer(bucket_name, Uuid(1)).items,
                            JStr("padding"))))

RECURSIVE Nested(_)
\* n arrays inside one another
Nested(n) ==
    IF n = 0 THEN <<>> ELSE <<Punct("[")>> \o Nested(n - 1) \o <<Punct("]")>>

Payloads == {Hello, Mir, Forged, Padded}

\* (message, attributes, message_group_id)
SendArgs == {<<p, None, None>> : p \in Payloads} \cup {<<Hello, "attrs", "group">>}

\* the items of a batch
BatchArgs == {<<Hello, None, None>>, <<Mir, "attrs", "group">>}

\* The bodies is_s3_pointer is called on directly: every two-element array of
\* a first and a second element below, the same with a third element, with
\* the closing bracket missing and with one too many, and other texts.
Firsts == {JStr(POINTER_TAG), JStr("other.Tag"), JNull, JList(<<JStr(POINTER_TAG)>>)}

Seconds ==
    {s3_pointer("b", "k").items[2],
     JDict(<< <<"s3Key", JNull>>, <<"s3BucketName", JStr("b")>>,
              <<"extra", JList(<<>>)>> >>),
     JDict(<< <<"s3BucketName", JStr("b")>> >>),
     JDict(<< <<"s3Key", JStr("k")>> >>),
     JDict(<<>>),
     JStr("not-a-dict"),
     JList(<<JStr("s3BucketName"), JStr("s3Key")>>),
     JNull}

Pairs == {json_dumps(JList(<<a, b>>)) : a \in Firsts, b \in Seconds}

Bodies ==
    Payloads \cup Pairs
    \cup {json_dumps(JList(<<JStr(POINTER_TAG), b, JNull>>)) : b \in Seconds}
    \cup {SubSeq(t, 1, Len(t) - 1) : t \in Pairs}
    \cup {t \o <<Punct("]")>> : t \in Pairs}
    \cup {json_dumps(b) : b \in Seconds}
    \cup {JustSomeText, json_dumps(JList(<<JStr(POINTER_TAG)>>)),
          Nested(RecursionLimit), Nested(RecursionLimit + 1), <<>>}

SeqsUpTo(S, n) == UNION {[1..k -> S] : k \in 0..n}

Injective(f) == \A i, j \in DOMAIN f : f[i] = f[j] => i = j

---------------------------------------------------------------------------
(* The state machine *)

NoLast ==
    [op |-> "", outcome |-> "", error |-> "", message |-> <<>>,
     messages |-> <<>>, receipt_handle |-> "", result |-> FALSE, ret |-> "",
     results |-> <<>>, attempted |-> 0, Messages |-> <<>>, polled |-> <<>>,
     content_length |-> 0, lookup_before |-> <<>>]

World ==
    [queue |-> sqs_queue, handles |-> sqs_handles, s3 |-> s3_objects,
     uuids |-> uuids, lookup |-> receipt_handle_lookup, sent |-> sent,
     calls |-> <<>>,
     err |-> "", ret |-> "", results |-> <<>>, attempted |-> 0, msgs |-> <<>>,
     polled |-> <<>>, content_length |-> 0]

\* The variables after an operation that ends in world w.
Becomes(w) ==
    /\ sqs_queue' = w.queue
    /\ sqs_handles' = w.handles
    /\ s3_objects' = w.s3
    /\ uuids' = w.uuids
    /\ receipt_handle_lookup' = w.lookup
    /\ calls' = w.calls
    /\ size_threshold' = size_threshold
    /\ threads' = threads

Outcome(w) == IF w.err = "" THEN "returned" ELSE "raised"

Init ==
    /\ size_threshold \in Thresholds
    /\ receipt_handle_lookup = <<>>
    /\ sqs_queue = <<>>
    /\ sqs_handles = <<>>
    /\ s3_objects = <<>>
    /\ uuids = 0
    /\ sent = <<>>
    /\ calls = <<>>
    /\ last = NoLast
    /\ threads = <<>>

\* The client is synchronous: a call is made once the last one has returned.
Idle == last.op = ""

SendMessage ==
    \E args \in SendArgs, fault \in 0..2 :
        /\ Idle
        /\ uuids + 2 <= MaxUuids
        /\ LET w == send_message(World, fault, args[1], args[2], args[3])
           IN /\ Becomes(w)
              /\ sent' = IF w.err = "" THEN Store(sent, w.ret, args[1]) ELSE sent
              /\ last' = [NoLast EXCEPT !.op = "send_message",
                                        !.message = args[1],
                                        !.outcome = Outcome(w),
                                        !.error = w.err,
                                        !.ret = IF w.err = "" THEN w.ret ELSE ""]

SendMessages ==
    \E messages \in SeqsUpTo(BatchArgs, MaxBatch), fault \in 0..(2 * MaxBatch) :
        /\ Idle
        /\ uuids + 2 * Len(messages) <= MaxUuids
        /\ LET w == send_messages(World, fault, messages)
           IN /\ Becomes(w)
              /\ sent' = w.sent
              /\ last' = [NoLast EXCEPT !.op = "send_messages",
                                        !.messages = messages,
                                        !.outcome = Outcome(w),
                                        !.error = w.err,
                                        !.results = w.results,
                                        !.attempted = w.attempted]

ReceiveMessages ==
    \E max_number_of_messages \in 1..MaxBatch, attributes \in {None},
       fault \in 0..(1 + MaxBatch) :
        \E delivered \in SeqsUpTo(1..Len(sqs_queue), max_number_of_messages) :
            /\ Idle
            /\ Injective(delivered)
            /\ Cardinality(DOMAIN sqs_handles) + Len(delivered) <= MaxDeliveries
            /\ LET w == receive_messages(World, fault, max_number_of_messages,
                                         attributes, delivered)
               IN /\ Becomes(w)
                  /\ sent' = sent
                  /\ last' = [NoLast EXCEPT
                        !.op = "receive_messages",
                        !.outcome = Outcome(w),
                        !.error = w.err,
                        !.polled = w.polled,
                        !.lookup_before = receipt_handle_lookup,
                        !.Messages = IF w.err = "" THEN w.msgs ELSE <<>>,
                        !.content_length =
                            IF w.err = "" THEN w.content_length ELSE 0]

DeleteMessage ==
    \E receipt_handle \in DOMAIN sqs_handles \cup {"unknown"}, fault \in 0..2 :
        LET w == delete_message(World, fault, receipt_handle)
        IN /\ Idle
           /\ Becomes(w)
           /\ sent' = sent
           /\ last' = [NoLast EXCEPT !.op = "delete_message",
                                     !.receipt_handle = receipt_handle,
                                     !.outcome = Outcome(w),
                                     !.error = w.err,
                                     !.lookup_before = receipt_handle_lookup,
                                     !.ret = IF w.err = "" THEN w.ret ELSE ""]

\* The call returns, or its exception reaches the caller.
Return ==
    /\ ~Idle
    /\ last' = NoLast
    /\ calls' = <<>>
    /\ UNCHANGED <<size_threshold, receipt_handle_lookup, sqs_queue,
                   sqs_handles, s3_objects, uuids, sent, threads>>

Next ==
    \/ SendMessage
    \/ SendMessages
    \/ ReceiveMessages
    \/ DeleteMessage
    \/ Return

Spec == Init /\ [][Next]_vars

---------------------------------------------------------------------------
(* is_s3_pointer as a function of the message alone: a call is pending on *)
(* each body of Bodies, and IsS3Pointer makes it.                          *)

InitIsS3Pointer ==
    /\ size_threshold = MAX_SQS_MESSAGE_SIZE
    /\ receipt_handle_lookup = <<>>
    /\ sqs_queue = <<>>
    /\ sqs_handles = <<>>
    /\ s3_objects = <<>>
    /\ uuids = 0
    /\ sent = <<>>
    /\ calls = <<>>
    /\ threads = <<>>
    /\ \E body \in Bodies :
          last = [NoLast EXCEPT !.op = "is_s3_pointer", !.message = body]

IsS3Pointer ==
    /\ last.op = "is_s3_pointer" /\ last.outcome = ""
    /\ LET p == is_s3_pointer([Body |-> last.message])
       IN last' = [last EXCEPT !.outcome = IF p.err = "" THEN "returned"
                                           ELSE "raised",
                               !.error = p.err,
                               !.result = p.result]
    /\ UNCHANGED <<size_threshold, receipt_handle_lookup, sqs_queue,
                   sqs_handles, s3_objects, uuids, sent, calls, threads>>

SpecIsS3Pointer == InitIsS3Pointer /\ [][IsS3Pointer]_vars

---------------------------------------------------------------------------
(* Several threads share one client.  The client takes no lock; a thread    *)
(* runs receive_messages or delete_message as the code writes it, and the   *)
(* threads interleave between any two accesses to what they share: the      *)
(* services and self._receipt_handle_lookup.  One item assignment, one      *)
(* membership test and one subscript of a dict are each a single step of    *)
(* the interpreter.                                                         *)

Threads == {"t1", "t2"}

\* a thread that makes no call; bound and deleted are history: the receipt
\* handles of the pointer messages the receive_messages calls that returned
\* on this thread resolved, and the (Bucket, Key) of the blob delete the
\* thread's delete_message issued
Resting ==
    [pc |-> "idle", op |-> "", err |-> "", msgs |-> <<>>, i |-> 0,
     content_length |-> 0, receipt_handle |-> "", s3_pointer |-> <<>>,
     bound |-> {}, deleted |-> <<>>]

\* the world with nothing in it, for the sends that precede the threads
Fresh ==
    [queue |-> <<>>, handles |-> <<>>, s3 |-> <<>>, uuids |-> 0,
     lookup |-> <<>>, sent |-> <<>>, calls |-> <<>>,
     err |-> "", ret |-> "", results |-> <<>>, attempted |-> 0, msgs |-> <<>>,
     polled |-> <<>>, content_length |-> 0]

\* the world thread t acts on: what is shared, and its sqs_response
ThreadWorld(t) ==
    [World EXCEPT !.msgs = threads[t].msgs,
                  !.content_length = threads[t].content_length]

\* thread t is at `pc`
At(t, pc) == threads[t].pc = pc

\* thread t goes on as the record r
Goes(t, r) == threads' = [threads EXCEPT ![t] = r]

\* the receipt handles of the pointer messages among msgs
PointerHandles(polled) ==
    {polled[i].ReceiptHandle : i \in {j \in 1..Len(polled) :
                                         is_s3_pointer(polled[j]).result}}

\* A batch of messages has been sent, the oversize ones to S3; the threads
\* then receive and delete.
InitThreads ==
    /\ size_threshold = utf8len(Hello)
    /\ \E messages \in SeqsUpTo(BatchArgs, MaxBatch) \ {<<>>} :
          LET w == send_messages(Fresh, 0, messages)
          IN /\ sqs_queue = w.queue
             /\ s3_objects = w.s3
             /\ uuids = w.uuids
             /\ sent = w.sent
    /\ receipt_handle_lookup = <<>>
    /\ sqs_handles = <<>>
    /\ calls = <<>>
    /\ last = NoLast
    /\ threads = [t \in Threads |-> Resting]

\* lines 165-170: receive_messages starts, SQS answers
T_Poll(t) ==
    \E max_number_of_messages \in 1..MaxBatch :
        \E delivered \in SeqsUpTo(1..Len(sqs_queue), max_number_of_messages) :
            /\ At(t, "idle")
            /\ Injective(delivered)
            /\ Cardinality(DOMAIN sqs_handles) + Len(delivered) <= MaxDeliveries
            /\ LET w == sqs_receive_message(World, 0, max_number_of_messages,
                                            None, delivered)
               IN /\ sqs_handles' = w.handles
                  /\ Goes(t, [Resting EXCEPT
                                !.pc = "loop", !.op = "receive_messages",
                                !.msgs = w.msgs, !.i = 1,
                                !.content_length = w.content_length,
                                !.bound = threads[t].bound])
            /\ UNCHANGED <<size_threshold, receipt_handle_lookup, sqs_queue,
                           s3_objects, uuids, sent, calls, last>>

\* lines 173-176 and 202: the head of the loop.  After the last message the
\* call returns; a message that is no pointer is passed over.
T_Turn(t) ==
    /\ At(t, "loop")
    /\ LET me == threads[t]
           p == is_s3_pointer(me.msgs[me.i])
       IN IF me.i > Len(me.msgs)
          THEN Goes(t, [me EXCEPT !.pc = "idle",
                                  !.bound = @ \cup PointerHandles(
                                      [j \in 1..Len(me.msgs) |->
                                          [me.msgs[j] EXCEPT !.Body =
                                              sqs_handles[me.msgs[j].ReceiptHandle].Body]])])
          ELSE IF p.err # "" THEN Goes(t, [me EXCEPT !.pc = "idle", !.err = p.err])
          ELSE IF p.result THEN Goes(t, [me EXCEPT !.pc = "record"])
          ELSE Goes(t, [me EXCEPT !.i = @ + 1])
    /\ UNCHANGED <<size_threshold, receipt_handle_lookup, sqs_queue,
                   sqs_handles, s3_objects, uuids, sent, calls, last>>

\* (mutant: the thread puts back a table that holds its own entries only)
T_Record_lost(t) ==
    /\ At(t, "record")
    /\ LET me == threads[t]
           body == Destructure(me.msgs[me.i])
       IN /\ receipt_handle_lookup' =
                Record([h \in DOMAIN receipt_handle_lookup \cap me.bound |->
                            receipt_handle_lookup[h]],
                       me.msgs[me.i],
                       Get(body, "s3BucketName"), Get(body, "s3Key"))
          /\ Goes(t, [me EXCEPT !.pc = "fetch"])
    /\ UNCHANGED <<size_threshold, sqs_queue, sqs_handles, s3_objects, uuids,
                   sent, calls, last>>

\* lines 179-187: the item assignment on self._receipt_handle_lookup
T_Record(t) ==
    /\ At(t, "record")
    /\ LET me == threads[t]
           body == Destructure(me.msgs[me.i])
       IN /\ receipt_handle_lookup' =
                Record(receipt_handle_lookup, me.msgs[me.i],
                       Get(body, "s3BucketName"), Get(body, "s3Key"))
          /\ Goes(t, [me EXCEPT !.pc = "fetch"])
    /\ UNCHANGED <<size_threshold, sqs_queue, sqs_handles, s3_objects, uuids,
                   sent, calls, last>>

\* lines 190-199: the blob is fetched and takes the place of the body
T_Fetch(t) ==
    /\ At(t, "fetch")
    /\ LET me == threads[t]
           body == Destructure(me.msgs[me.i])
           w == Fetched(s3_get_object(ThreadWorld(t), 0,
                                      Get(body, "s3BucketName"),
                                      Get(body, "s3Key")),
                        me.i, Get(body, "s3BucketName"), Get(body, "s3Key"))
       IN IF w.err # "" THEN Goes(t, [me EXCEPT !.pc = "idle", !.err = w.err])
          ELSE Goes(t, [me EXCEPT !.pc = "loop", !.i = @ + 1, !.msgs = w.msgs,
                                  !.content_length = w.content_length])
    /\ UNCHANGED <<size_threshold, receipt_handle_lookup, sqs_queue,
                   sqs_handles, s3_objects, uuids, sent, calls, last>>

\* lines 215-218: delete_message starts, SQS deletes
T_DeleteMessage(t) ==
    \E receipt_handle \in DOMAIN sqs_handles :
        /\ At(t, "idle")
        /\ LET w == sqs_delete_message(World, 0, receipt_handle)
           IN /\ sqs_queue' = w.queue
              /\ Goes(t, [Resting EXCEPT
                            !.pc = IF w.err = "" THEN "lookup" ELSE "idle",
                            !.op = "delete_message", !.err = w.err,
                            !.receipt_handle = receipt_handle,
                            !.bound = threads[t].bound])
        /\ UNCHANGED <<size_threshold, receipt_handle_lookup, sqs_handles,
                       s3_objects, uuids, sent, calls, last>>

\* line 221: receipt_handle in self._receipt_handle_lookup
T_Lookup(t) ==
    /\ At(t, "lookup")
    /\ Goes(t, [threads[t] EXCEPT !.pc =
                    IF threads[t].receipt_handle \in DOMAIN receipt_handle_lookup
                    THEN "read" ELSE "idle"])
    /\ UNCHANGED <<size_threshold, receipt_handle_lookup, sqs_queue,
                   sqs_handles, s3_objects, uuids, sent, calls, last>>

\* line 222: self._receipt_handle_lookup[receipt_handle]
T_Read(t) ==
    /\ At(t, "read")
    /\ IF threads[t].receipt_handle \in DOMAIN receipt_handle_lookup
       THEN Goes(t, [threads[t] EXCEPT
                        !.pc = "delete_object",
                        !.s3_pointer =
                            receipt_handle_lookup[threads[t].receipt_handle]])
       ELSE Goes(t, [threads[t] EXCEPT !.pc = "idle", !.err = "KeyError"])
    /\ UNCHANGED <<size_threshold, receipt_handle_lookup, sqs_queue,
                   sqs_handles, s3_objects, uuids, sent, calls, last>>

\* lines 223-227: the blob delete, and the return
T_DeleteObject(t) ==
    /\ At(t, "delete_object")
    /\ LET me == threads[t]
           w == s3_delete_object(World, 0, me.s3_pointer.s3_bucket_name,
                                 me.s3_pointer.s3_key)
       IN /\ s3_objects' = w.s3
          /\ Goes(t, [me EXCEPT !.pc = "idle", !.err = w.err,
                                !.deleted = <<me.s3_pointer.s3_bucket_name,
                                              me.s3_pointer.s3_key>>])
    /\ UNCHANGED <<size_threshold, receipt_handle_lookup, sqs_queue,
                   sqs_handles, uuids, sent, calls, last>>

NextThreads ==
    \E t \in Threads :
        \/ T_Poll(t)
        \/ T_Turn(t)
        \/ T_Record(t)
        \/ T_Fetch(t)
        \/ T_DeleteMessage(t)
        \/ T_Lookup(t)
        \/ T_Read(t)
        \/ T_DeleteObject(t)

SpecThreads == InitThreads /\ [][NextThreads]_vars

---------------------------------------------------------------------------
(* Properties *)

RECURSIVE Utf8Bytes(_)
\* the UTF-8 byte length of a text
Utf8Bytes(text) ==
    IF text = <<>> THEN 0 ELSE ByteLen(Head(text)) + Utf8Bytes(Tail(text))

\* the pointer record on the wire:
\* ["<tag>", {"s3BucketName": "<bucket>", "s3Key": "<key>"}]
WirePointer(bucket, key) ==
    <<Punct("["), Str(POINTER_TAG), Punct(","),
      Punct("{"), Str("s3BucketName"), Punct(":"), Str(bucket), Punct(","),
      Str("s3Key"), Punct(":"), Str(key), Punct("}"), Punct("]")>>

S3Calls == {i \in 1..Len(calls) : calls[i].op \in
                {"s3.put_object", "s3.get_object", "s3.delete_object"}}

InQueue(id) == \E i \in 1..Len(sqs_queue) : sqs_queue[i].MessageId = id

\* C1: a payload of at most size_threshold bytes is submitted verbatim as the
\* queue body, by the one service call send_message makes; S3 is not called.
C1_InlineVerbatim ==
    (last.op = "send_message" /\ Utf8Bytes(last.message) <= size_threshold) =>
        /\ S3Calls = {}
        /\ Len(calls) = 1
        /\ calls[1].op = "sqs.send_message"
        /\ calls[1].Body = last.message
        /\ calls[1].ok =>
              /\ sqs_queue # <<>>
              /\ sqs_queue[Len(sqs_queue)].Body = last.message

C1_Witness ==
    /\ last.op = "send_message" /\ last.outcome = "returned"
    /\ Utf8Bytes(last.message) = size_threshold

\* C2: a payload of more than size_threshold bytes is put to S3 exactly once,
\* in the configured bucket, as it is, under a key no object and no message
\* had before; the body then submitted to the queue is the pointer record of
\* that bucket and key, and the key is the deduplication id.
C2_Oversize ==
    last'.op = "send_message" /\ Utf8Bytes(last'.message) > size_threshold

C2_Externalized ==
    /\ Cardinality({i \in 1..Len(calls') : calls'[i].op = "s3.put_object"}) = 1
    /\ calls'[1].op = "s3.put_object"
    /\ calls'[1].Bucket = JStr(bucket_name)
    /\ calls'[1].Body = last'.message
    /\ calls'[1].Key.t = "str"
    /\ <<bucket_name, calls'[1].Key.s>> \notin DOMAIN s3_objects
    /\ \A i \in 1..Len(sqs_queue) : sqs_queue[i].DedupId # calls'[1].Key.s
    /\ IF calls'[1].ok
       THEN /\ Len(calls') = 2
            /\ calls'[2].op = "sqs.send_message"
            /\ calls'[2].Body = WirePointer(bucket_name, calls'[1].Key.s)
            /\ calls'[2].DedupId = calls'[1].Key.s
            /\ calls'[2].ok =>
                  /\ Len(sqs_queue') = Len(sqs_queue) + 1
                  /\ sqs_queue'[Len(sqs_queue')].Body = calls'[2].Body
                  /\ sqs_queue'[Len(sqs_queue')].DedupId = calls'[1].Key.s
       ELSE Len(calls') = 1

C2_PointerSubstituted == [][C2_Oversize => C2_Externalized]_vars

C2_Witness ==
    /\ last.op = "send_message" /\ last.outcome = "returned"
    /\ Utf8Bytes(last.message) > size_threshold

\* C3: a message that receive_messages returns for a payload of more than
\* size_threshold bytes given to send_message carries that payload as its
\* body.
C3_RoundTrip ==
    (last.op = "receive_messages" /\ last.outcome = "returned") =>
        \A i \in 1..Len(last.Messages) :
            LET id == last.Messages[i].MessageId
            IN (id \in DOMAIN sent /\ Utf8Bytes(sent[id]) > size_threshold) =>
                  last.Messages[i].Body = sent[id]

C3_Witness ==
    /\ last.op = "receive_messages" /\ last.outcome = "returned"
    /\ \E i \in 1..Len(last.Messages) :
          /\ last.Messages[i].MessageId \in DOMAIN sent
          /\ Utf8Bytes(sent[last.Messages[i].MessageId]) > size_threshold

\* the value of a field of the pointer record a body holds
PointerField(body, name) == Get(json_loads(body).val.items[2], name)

\* C4: delete_message(H) first issues the queue delete for H.  For an H that
\* receive_messages recorded, once the queue delete has succeeded it issues one
\* blob delete, for the bucket and key of the pointer delivered under H; for
\* an H it never recorded, the queue delete is the only call.
C4_Acknowledge ==
    last.op = "delete_message" =>
        /\ Len(calls) >= 1
        /\ calls[1].op = "sqs.delete_message"
        /\ calls[1].ReceiptHandle = last.receipt_handle
        /\ IF last.receipt_handle \in DOMAIN last.lookup_before /\ calls[1].ok
           THEN /\ Len(calls) = 2
                /\ calls[2].op = "s3.delete_object"
                /\ calls[2].Bucket =
                      PointerField(sqs_handles[last.receipt_handle].Body,
                                   "s3BucketName")
                /\ calls[2].Key =
                      PointerField(sqs_handles[last.receipt_handle].Body, "s3Key")
           ELSE Len(calls) = 1

C4_Witness ==
    /\ last.op = "delete_message" /\ last.outcome = "returned"
    /\ last.receipt_handle \in DOMAIN last.lookup_before
    /\ Len(calls) = 2 /\ calls[2].ok

\* C5: after a delete_message(H) in which both deletes succeeded, H is no
\* longer recorded.
C5_BindingRemoved ==
    (/\ last.op = "delete_message" /\ last.outcome = "returned"
     /\ last.receipt_handle \in DOMAIN last.lookup_before) =>
        last.receipt_handle \notin DOMAIN receipt_handle_lookup

\* C6: in delete_message the queue delete is the first call; when it fails the
\* exception reaches the caller, no blob delete follows, and the objects in
\* S3 and the recorded handles are what they were.
C6_QueueDeleteFailed ==
    /\ last'.op = "delete_message"
    /\ Len(calls') >= 1 /\ ~calls'[1].ok

C6_NothingElseDone ==
    /\ Len(calls') = 1
    /\ last'.outcome = "raised"
    /\ s3_objects' = s3_objects
    /\ receipt_handle_lookup' = receipt_handle_lookup

C6_QueueDeleteFirst ==
    [][/\ last'.op = "delete_message" =>
            /\ Len(calls') >= 1
            /\ calls'[1].op = "sqs.delete_message"
            /\ \A i \in 2..Len(calls') : calls'[i].op = "s3.delete_object"
       /\ C6_QueueDeleteFailed => C6_NothingElseDone]_vars

C6_Witness ==
    /\ last.op = "delete_message" /\ last.outcome = "raised"
    /\ last.receipt_handle \in DOMAIN receipt_handle_lookup
    /\ Len(calls) = 1 /\ ~calls[1].ok
    /\ <<receipt_handle_lookup[last.receipt_handle].s3_bucket_name.s,
         receipt_handle_lookup[last.receipt_handle].s3_key.s>>
            \in DOMAIN s3_objects

\* C7: when the queue delete of delete_message(H) succeeds and the blob delete
\* fails, the call raises and returns nothing, the message H was issued for is
\* not in the queue, and the objects in S3 are what they were.
C7_BlobDeleteFailed ==
    /\ last'.op = "delete_message"
    /\ Len(calls') = 2 /\ calls'[1].ok /\ ~calls'[2].ok

C7_PartialFailureReported ==
    [][C7_BlobDeleteFailed =>
          /\ last'.outcome = "raised"
          /\ last'.ret = ""
          /\ \A i \in 1..Len(sqs_queue') :
                sqs_queue'[i].MessageId #
                    sqs_handles[last'.receipt_handle].MessageId
          /\ s3_objects' = s3_objects]_vars

C7_Witness ==
    /\ last.op = "delete_message" /\ last.outcome = "raised"
    /\ Len(calls) = 2 /\ calls[1].ok /\ ~calls[2].ok
    /\ calls[2].Bucket.t = "str" /\ calls[2].Key.t = "str"
    /\ <<calls[2].Bucket.s, calls[2].Key.s>> \in DOMAIN s3_objects

\* C8: send_messages over N items returns N results in input order when all
\* succeed; when item k fails, items 1..k-1 are in the queue and their k-1
\* results reach the caller, and no item after k is attempted.
C8_BatchResults ==
    last.op = "send_messages" =>
        IF last.outcome = "returned"
        THEN /\ Len(last.results) = Len(last.messages)
             /\ \A i \in 1..Len(last.messages) :
                   /\ InQueue(last.results[i])
                   /\ sent[last.results[i]] = last.messages[i][1]
        ELSE /\ last.attempted \in 1..Len(last.messages)
             /\ Len(last.results) = last.attempted - 1
             /\ \A i \in 1..Len(last.results) :
                   /\ InQueue(last.results[i])
                   /\ sent[last.results[i]] = last.messages[i][1]
             /\ Cardinality({c \in 1..Len(calls) :
                                calls[c].op = "sqs.send_message"})
                    <= last.attempted

\* a body that is a pointer record: it parses, to a two-element array of the
\* type tag and a mapping with both fields
IsPointerRecord(text) ==
    LET loaded == json_loads(text)
    IN /\ loaded.err = ""
       /\ loaded.val.t = "list"
       /\ Len(loaded.val.items) = 2
       /\ loaded.val.items[1].t = "str"
       /\ loaded.val.items[1].s = POINTER_TAG
       /\ loaded.val.items[2].t = "dict"
       /\ {"s3BucketName", "s3Key"} \subseteq Keys(loaded.val.items[2])

\* C9: is_s3_pointer returns, for every body, and returns True exactly for
\* the bodies that are pointer records; it raises for none.
C9_IsPointerTotal ==
    (last.op = "is_s3_pointer" /\ last.outcome # "") =>
        /\ last.outcome = "returned"
        /\ last.result = IsPointerRecord(last.message)

\* C10: a polled message that is_s3_pointer says is no pointer is returned as
\* it was polled, its receipt handle is not recorded, and S3 is called for
\* the pointer messages only.
NotPointers ==
    {i \in 1..Len(last.polled) : ~is_s3_pointer(last.polled[i]).result}

C10_PassThrough ==
    last.op = "receive_messages" =>
        /\ \A i \in NotPointers :
              /\ last.outcome = "returned" => last.Messages[i] = last.polled[i]
              /\ last.polled[i].ReceiptHandle \notin DOMAIN receipt_handle_lookup
        /\ \A c \in S3Calls : calls[c].op = "s3.get_object"
        /\ Cardinality(S3Calls) <= Len(last.polled) - Cardinality(NotPointers)
        /\ last.outcome = "returned" =>
              Cardinality(S3Calls) = Len(last.polled) - Cardinality(NotPointers)

C10_Witness ==
    /\ last.op = "receive_messages" /\ last.outcome = "returned"
    /\ Len(last.polled) = 2
    /\ Cardinality(NotPointers) = 1

\* the entry receive_messages records for the pointer delivered under h
BindingOf(h) ==
    [s3_bucket_name |-> PointerField(sqs_handles[h].Body, "s3BucketName"),
     s3_key |-> PointerField(sqs_handles[h].Body, "s3Key")]

\* C11: with threads sharing the client, every receipt handle recorded by a
\* receive_messages that returned is in the table with the bucket and key of
\* its pointer, and a delete_message(H) that a thread has completed for an H
\* its own earlier receive_messages recorded has issued the blob delete for
\* that bucket and key, of which no object is left.
C11_SharedTable ==
    \A t \in DOMAIN threads :
        /\ \A h \in threads[t].bound :
              /\ h \in DOMAIN receipt_handle_lookup
              /\ receipt_handle_lookup[h] = BindingOf(h)
        /\ (/\ threads[t].op = "delete_message" /\ threads[t].pc = "idle"
            /\ threads[t].err = ""
            /\ threads[t].receipt_handle \in threads[t].bound) =>
              /\ threads[t].deleted =
                    <<BindingOf(threads[t].receipt_handle).s3_bucket_name,
                      BindingOf(threads[t].receipt_handle).s3_key>>
              /\ <<threads[t].deleted[1].s, threads[t].deleted[2].s>>
                    \notin DOMAIN s3_objects

C11_Witness ==
    \E t, u \in DOMAIN threads :
        /\ t # u
        /\ threads[t].op = "delete_message" /\ threads[t].pc = "idle"
        /\ threads[t].receipt_handle \in threads[t].bound
        /\ threads[t].deleted # <<>>
        /\ threads[u].pc = "fetch"
        /\ threads[u].msgs[threads[u].i].ReceiptHandle
              \in DOMAIN receipt_handle_lookup \ threads[t].bound

SendCalls == {i \in 1..Len(calls) : calls[i].op = "sqs.send_message"}
PutCalls == {i \in 1..Len(calls) : calls[i].op = "s3.put_object"}

\* C12 as stated: every send_message, a failing one included, makes one
\* queue enqueue, and one blob write exactly when the payload is over the
\* threshold.
C12_OneEnqueueAlways ==
    last.op = "send_message" =>
        /\ Cardinality(SendCalls) = 1
        /\ Cardinality(PutCalls) =
              IF Utf8Bytes(last.message) > size_threshold THEN 1 ELSE 0

\* C12, amended: every send_message makes one blob write exactly when the
\* payload is over the threshold, before any enqueue; it makes one enqueue
\* unless the blob write failed, and then none; one that returns has
\* enqueued one message, the one whose id it returns.
C12_OneEnqueueUnlessPutFailed ==
    last.op = "send_message" =>
        /\ Cardinality(PutCalls) =
              IF Utf8Bytes(last.message) > size_threshold THEN 1 ELSE 0
        /\ PutCalls \subseteq {1}
        /\ Cardinality(SendCalls) =
              IF \E i \in PutCalls : ~calls[i].ok THEN 0 ELSE 1
        /\ \A i \in 1..Len(calls) : ~calls[i].ok => i = Len(calls)
        /\ last.outcome = "returned" <=> \A i \in 1..Len(calls) : calls[i].ok
        /\ last.outcome = "returned" =>
              /\ sqs_queue # <<>>
              /\ sqs_queue[Len(sqs_queue)].MessageId = last.ret
              /\ Cardinality({i \in 1..Len(sqs_queue) :
                                 sqs_queue[i].MessageId = last.ret}) = 1

C12_Witness ==
    /\ last.op = "send_message" /\ last.outcome = "raised"
    /\ Utf8Bytes(last.message) > size_threshold
    /\ Len(calls) = 1 /\ ~calls[1].ok

\* receipt handle h was issued, by the receive_messages call of this step,
\* for a message whose body is a pointer record
C13_DeliveredPointer(h) ==
    /\ last'.op = "receive_messages"
    /\ \E i \in 1..Len(last'.polled) :
          /\ last'.polled[i].ReceiptHandle = h
          /\ IsPointerRecord(last'.polled[i].Body)

\* C13: every entry of self._receipt_handle_lookup is under a receipt handle
\* SQS issued for a delivery whose body was a pointer record, and holds the
\* s3BucketName and s3Key of that record; an entry appears or changes only in
\* a receive_messages step that polled that delivery; send_message,
\* send_messages and delete_message leave the table as it is.
C13_BindingTable ==
    /\ [](\A h \in DOMAIN receipt_handle_lookup :
             /\ h \in DOMAIN sqs_handles
             /\ IsPointerRecord(sqs_handles[h].Body)
             /\ receipt_handle_lookup[h] = BindingOf(h))
    /\ [][\A h \in DOMAIN receipt_handle_lookup' :
             (\/ h \notin DOMAIN receipt_handle_lookup
              \/ receipt_handle_lookup'[h] # receipt_handle_lookup[h])
                => C13_DeliveredPointer(h)]_vars
    /\ [][last'.op \in {"send_message", "send_messages", "delete_message"}
             => receipt_handle_lookup' = receipt_handle_lookup]_vars

C13_Witness ==
    /\ last.op = "receive_messages"
    /\ Cardinality(DOMAIN receipt_handle_lookup) = 2
    /\ \E h \in DOMAIN receipt_handle_lookup :
          h \notin DOMAIN last.lookup_before

\* C14: every message in the queue that send_message enqueued for a payload
\* over the threshold points to an object that is in S3.
C14_NoDanglingPointer ==
    \A i \in 1..Len(sqs_queue) :
        (/\ sqs_queue[i].MessageId \in DOMAIN sent
         /\ Utf8Bytes(sent[sqs_queue[i].MessageId]) > size_threshold) =>
            /\ IsPointerRecord(sqs_queue[i].Body)
            /\ <<PointerField(sqs_queue[i].Body, "s3BucketName").s,
                 PointerField(sqs_queue[i].Body, "s3Key").s>>
                  \in DOMAIN s3_objects

\* the pointer messages among those the last receive_messages polled, and
\* the place of the one at index j among them
C15_Pointers == {j \in 1..Len(last.polled) : IsPointerRecord(last.polled[j].Body)}
C15_Place(j) == Cardinality({x \in C15_Pointers : x <= j})

\* the blob fetch of the last receive_messages failed
C15_FetchFailed ==
    /\ last.op = "receive_messages"
    /\ calls # <<>>
    /\ calls[Len(calls)].op = "s3.get_object" /\ ~calls[Len(calls)].ok

\* C15: when the blob fetch for the i-th pointer message of a batch fails,
\* receive_messages raises and returns no response, the receipt handles of
\* pointer messages 1..i are recorded, each with the bucket and key of its
\* pointer, and those of the pointer messages after i are not.  Recorded
\* handles stay recorded, and delete_message of a recorded handle issues,
\* once its queue delete has succeeded, the blob delete for what is recorded.
C15_RecordedBeforeFetch ==
    /\ [](C15_FetchFailed =>
            /\ last.outcome = "raised"
            /\ last.Messages = <<>>
            /\ \A j \in C15_Pointers :
                  IF C15_Place(j) <= Cardinality(S3Calls)
                  THEN /\ last.polled[j].ReceiptHandle
                             \in DOMAIN receipt_handle_lookup
                       /\ receipt_handle_lookup[last.polled[j].ReceiptHandle]
                             = BindingOf(last.polled[j].ReceiptHandle)
                  ELSE last.polled[j].ReceiptHandle
                             \notin DOMAIN receipt_handle_lookup)
    /\ [][\A h \in DOMAIN receipt_handle_lookup :
             /\ h \in DOMAIN receipt_handle_lookup'
             /\ receipt_handle_lookup'[h] = receipt_handle_lookup[h]]_vars
    /\ [][(/\ last'.op = "delete_message"
           /\ last'.receipt_handle \in DOMAIN receipt_handle_lookup
           /\ calls'[1].ok) =>
             /\ Len(calls') = 2
             /\ calls'[2].op = "s3.delete_object"
             /\ calls'[2].Bucket =
                   receipt_handle_lookup[last'.receipt_handle].s3_bucket_name
             /\ calls'[2].Key =
                   receipt_handle_lookup[last'.receipt_handle].s3_key]_vars

C15_Witness ==
    /\ C15_FetchFailed
    /\ Cardinality(C15_Pointers) = 2
    /\ Cardinality(S3Calls) = 1
    /\ Cardinality(DOMAIN receipt_handle_lookup) = 1

\* C16: a message that receive_messages polls for a payload of at most
\* size_threshold bytes given to send_message, pointer-shaped or not, has its
\* receipt handle left unrecorded (so that delete_message deletes no blob for
\* it), and is returned with that payload as its body.
C16_InlineRoundTrip ==
    last.op = "receive_messages" =>
        \A i \in 1..Len(last.polled) :
            (/\ last.polled[i].MessageId \in DOMAIN sent
             /\ Utf8Bytes(sent[last.polled[i].MessageId]) <= size_threshold) =>
                /\ last.polled[i].ReceiptHandle \notin DOMAIN receipt_handle_lookup
                /\ last.outcome = "returned" =>
                      last.Messages[i].Body = sent[last.polled[i].MessageId]

\* the service calls an operation may make
C17_Allowed(op) ==
    CASE op \in {"send_message", "send_messages"} ->
            {"s3.put_object", "sqs.send_message"}
      [] op = "receive_messages" -> {"sqs.receive_message", "s3.get_object"}
      [] op = "delete_message" -> {"sqs.delete_message", "s3.delete_object"}
      [] OTHER -> {}

\* what world w leaves is what this step leaves
C17_Same(w) ==
    /\ w.queue = sqs_queue' /\ w.s3 = s3_objects' /\ w.uuids = uuids'
    /\ w.calls = calls' /\ w.handles = sqs_handles'

\* the step is what the send does on a client whose table is empty
C17_TableUnread ==
    /\ last'.op = "send_message" =>
          \E args \in SendArgs, fault \in 0..2 :
              /\ args[1] = last'.message
              /\ C17_Same(send_message([World EXCEPT !.lookup = <<>>], fault,
                                       args[1], args[2], args[3]))
    /\ last'.op = "send_messages" =>
          \E fault \in 0..(2 * MaxBatch) :
              C17_Same(send_messages([World EXCEPT !.lookup = <<>>], fault,
                                     last'.messages))

\* C17: send_message and send_messages call only blob put and queue enqueue,
\* leave the table as it is and do what they would do with any other table;
\* receive_messages calls only queue poll and blob get; delete_message calls
\* only queue delete and blob delete.
C17_Frame ==
    [][/\ \A i \in 1..Len(calls') : calls'[i].op \in C17_Allowed(last'.op)
       /\ last'.op \in {"send_message", "send_messages"} =>
             /\ receipt_handle_lookup' = receipt_handle_lookup
             /\ C17_TableUnread]_vars

C17_Witness ==
    /\ last.op = "send_messages" /\ last.outcome = "returned"
    /\ PutCalls # {}
    /\ receipt_handle_lookup # <<>>

\* C18: in the response receive_messages returns, the MD5OfBody of every
\* message is the digest of the UTF-8 bytes of its body; for a message that
\* was polled as a pointer it is the digest of the bytes of the blob the
\* pointer names.
C18_HashOfResolvedBody ==
    (last.op = "receive_messages" /\ last.outcome = "returned") =>
        \A i \in 1..Len(last.Messages) :
            /\ last.Messages[i].MD5OfBody =
                  md5_hexdigest(encode(last.Messages[i].Body))
            /\ IsPointerRecord(last.polled[i].Body) =>
                  /\ last.Messages[i].MD5OfBody =
                        md5_hexdigest(s3_objects[
                            <<PointerField(last.polled[i].Body, "s3BucketName").s,
                              PointerField(last.polled[i].Body, "s3Key").s>>])
                  /\ last.Messages[i].Body # last.polled[i].Body =>
                        last.Messages[i].MD5OfBody # last.polled[i].MD5OfBody

C18_Witness ==
    /\ last.op = "receive_messages" /\ last.outcome = "returned"
    /\ \E i \in 1..Len(last.Messages) :
          /\ IsPointerRecord(last.polled[i].Body)
          /\ last.Messages[i].MD5OfBody # last.polled[i].MD5OfBody

====
